---- MODULE Spec2Model ----
(***************************************************************************)
(* Web Security Analyzer & Summarizer (web_security_analyzer_app.py).      *)
(*                                                                         *)
(* The model has three layers:                                             *)
(*   - the URL normalizer _requote (requests.utils.requote_uri), computed  *)
(*     on strings represented as sequences of code points;                 *)
(*   - the two crawlers fetch_static and capture_api;                      *)
(*   - main(), one Streamlit script run after the other, over the          *)
(*     session's artifact list and the files written to disk.              *)
(***************************************************************************)
EXTENDS Integers, Sequences, FiniteSets, TLC

VARIABLES
    nurl,       \* normalizer: the URL string currently held (code points)
    nprev,      \* normalizer: the string before the last _requote
    nsteps,     \* normalizer: number of _requote applications so far
    arts,       \* st.session_state.arts: the session's list of FileArtifact
    fs,         \* the files on disk: path -> bytes last written there
    pc,         \* position of the script run inside main() / capture_api()
    runs,       \* script runs started so far
    live,       \* browser sessions acquired and not yet quit
    ret,        \* the list the crawler running now has built (arts / out)
    exc,        \* the exception in flight, "" when none
    shown,      \* the message of st.error in this script run, "" when none
    before,     \* history: arts when the crawl call running now started
    failed,     \* history: the crawl call of this run that raised ("" none)
    tmp,        \* the directory of the crawl of this script run, 0 when none
    page,       \* fetch_static alone: the document the server holds
    seen        \* capture_api alone: drv.requests as the browser recorded them

nvars == <<nurl, nprev, nsteps>>
svars == <<arts, fs, pc, runs, live, ret, exc, shown, before, failed, tmp,
           page, seen>>
vars == <<nurl, nprev, nsteps, arts, fs, pc, runs, live, ret, exc, shown,
          before, failed, tmp, page, seen>>

-----------------------------------------------------------------------------
(* Bounds                                                                  *)

MaxLen == 5          \* longest URL string the normalizer is applied to
MaxRuns == 2         \* script runs (Streamlit reruns) in one session
MaxArts == 3         \* artifacts the session's list may grow to
MaxRefs == 2         \* script / link tags in the root document
MaxExchanges == 2    \* exchanges the browser records during one page load
MaxUploads == 1      \* files in the uploader during one script run

-----------------------------------------------------------------------------
(* Strings                                                                 *)

\* Code points of the characters the URLs are drawn from:
\* '%', '1', '4', 'z', ' ', and U+2011 (non-breaking hyphen).
UrlChars == {37, 49, 52, 122, 32, 8209}

UrlStrings == UNION {[1..n -> UrlChars] : n \in 0..MaxLen}

\* str.isalnum on one character (the alphabet holds no non-ASCII letter).
IsAlnum(c) == c \in (48..57) \cup (65..90) \cup (97..122)

\* The value of a hexadecimal digit, -1 when c is none.
HexVal(c) ==
    IF c \in 48..57 THEN c - 48
    ELSE IF c \in 65..70 THEN c - 55
    ELSE IF c \in 97..102 THEN c - 87
    ELSE -1

\* The upper-case hexadecimal digit of d in 0..15 ("%02X").
HexDigit(d) == IF d < 10 THEN 48 + d ELSE 55 + d

\* UNRESERVED_SET of requests.utils: letters, digits, "-._~".
UNRESERVED_SET == (48..57) \cup (65..90) \cup (97..122) \cup {45, 46, 95, 126}

\* "!#$%&'()*+,/:;=?@[]~"
safe_with_percent ==
    {33, 35, 36, 37, 38, 39, 40, 41, 42, 43, 44, 47, 58, 59, 61, 63, 64, 91, 93, 126}

\* "!#$&'()*+,/:;=?@[]~"
safe_without_percent == safe_with_percent \ {37}

\* str.encode("utf-8") of one code point below U+10000.
Utf8Bytes(c) ==
    IF c < 128 THEN <<c>>
    ELSE IF c < 2048 THEN <<192 + (c \div 64), 128 + (c % 64)>>
    ELSE <<224 + (c \div 4096), 128 + ((c \div 64) % 64), 128 + (c % 64)>>

RECURSIVE PctBytes(_)
\* "%XX" for every byte of bs.
PctBytes(bs) ==
    IF bs = <<>> THEN <<>>
    ELSE <<37, HexDigit(Head(bs) \div 16), HexDigit(Head(bs) % 16)>> \o PctBytes(Tail(bs))

RECURSIVE quote(_, _)
\* urllib.parse.quote(s, safe): unreserved and safe characters are kept, every
\* other character becomes the %XX of its UTF-8 bytes.
quote(s, safe) ==
    IF s = <<>> THEN <<>>
    ELSE (IF Head(s) \in UNRESERVED_SET \cup safe
          THEN <<Head(s)>>
          ELSE PctBytes(Utf8Bytes(Head(s)))) \o quote(Tail(s), safe)

RECURSIVE SplitPct(_)
\* uri.split("%"): the parts between the '%' characters (at least one part).
SplitPct(s) ==
    IF s = <<>> THEN << <<>> >>
    ELSE LET rest == SplitPct(Tail(s)) IN
         IF Head(s) = 37 THEN << <<>> >> \o rest
         ELSE << <<Head(s)>> \o Head(rest) >> \o Tail(rest)

\* One part after a '%': TRUE when int(h, 16) raises ValueError.
PartInvalid(p) ==
    /\ Len(p) >= 2
    /\ IsAlnum(p[1]) /\ IsAlnum(p[2])
    /\ (HexVal(p[1]) < 0 \/ HexVal(p[2]) < 0)

\* One part after a '%', rewritten: an escape of an unreserved character is
\* decoded, everything else gets its '%' back.
PartUnquoted(p) ==
    IF Len(p) >= 2 /\ IsAlnum(p[1]) /\ IsAlnum(p[2])
    THEN LET c == 16 * HexVal(p[1]) + HexVal(p[2]) IN
         IF c \in UNRESERVED_SET
         THEN <<c>> \o SubSeq(p, 3, Len(p))
         ELSE <<37>> \o p
    ELSE <<37>> \o p

RECURSIVE JoinUnquoted(_)
JoinUnquoted(parts) ==
    IF parts = <<>> THEN <<>>
    ELSE PartUnquoted(Head(parts)) \o JoinUnquoted(Tail(parts))

\* requests.utils.unquote_unreserved raises InvalidURL.
UnquoteRaises(uri) ==
    LET parts == SplitPct(uri) IN
    \E i \in 2..Len(parts) : PartInvalid(parts[i])

\* requests.utils.unquote_unreserved, when it does not raise.
unquote_unreserved(uri) ==
    LET parts == SplitPct(uri) IN Head(parts) \o JoinUnquoted(Tail(parts))

\* requests.utils.requote_uri.
requote_uri(uri) ==
    IF UnquoteRaises(uri)
    THEN quote(uri, safe_without_percent)
    ELSE quote(unquote_unreserved(uri), safe_with_percent)

_requote(url) == requote_uri(url)

-----------------------------------------------------------------------------
(* Data model                                                              *)

\* Python's None in a text slot (summary, details) and in the url slot.
None == "<None>"
NoUrl == <<>>          \* FileArtifact.url of an upload (url = None)

\* A payload or a file content: a str ("str"), bytes that are the UTF-8 of a
\* text ("utf8"), any other bytes ("raw"), or an object without decode()
\* ("none"). lossy: undecodable bytes were replaced by U+FFFD.
Text(id) == [form |-> "str", id |-> id, lossy |-> FALSE]
Utf8Of(id) == [form |-> "utf8", id |-> id, lossy |-> FALSE]
RawBytes(id) == [form |-> "raw", id |-> id, lossy |-> FALSE]
NoBytes == [form |-> "none", id |-> "", lossy |-> FALSE]

\* str.encode("utf-8", errors="replace"), as write_text does.
Encode(t) == [form |-> "utf8", id |-> t.id, lossy |-> t.lossy]

\* bytes.decode("utf-8", errors="replace"), as read_text and r.text do.
Decode(b) ==
    [form |-> "str", id |-> b.id, lossy |-> (b.lossy \/ b.form = "raw")]

\* isinstance(content, str)
IsStr(c) == c.form = "str"

\* The FileArtifact dataclass. declared, nsum, ndet, sumErr and detErr are
\* history fields: the media type the source declared, the number of
\* assignments to summary / details, and whether the collaborator raised.
FileArtifact(path, type, url, content) ==
    [path |-> path, type |-> type, url |-> url, content |-> content,
     summary |-> None, details |-> None,
     declared |-> "", nsum |-> 0, ndet |-> 0, sumErr |-> FALSE, detErr |-> FALSE]

\* tmp / name. The stem of a crawled file is the sha1 prefix of a URL, taken
\* as injective: it is modelled by the URL itself.
Path(dir, prefix, stem, ext) ==
    [dir |-> dir, prefix |-> prefix, stem |-> stem, ext |-> ext]

\* path.write_text / path.write_bytes: the file holds what was written last.
WriteFile(files, p, b) == (p :> b) @@ files

\* _safe_write(path, text)
_safe_write(files, p, text) == WriteFile(files, p, Encode(text))

Range(f) == {f[i] : i \in DOMAIN f}

-----------------------------------------------------------------------------
(* fetch_static                                                            *)

\* "http://h/"
BaseUrl == <<104, 116, 116, 112, 58, 47, 47, 104, 47>>

\* "index"
IndexStem == <<105, 110, 100, 101, 120>>

\* urllib.parse.urljoin(base, src) raises ValueError("Invalid IPv6 URL"): the
\* reference names a network location with an unmatched bracket.
UrlJoinRaises(src) ==
    /\ Len(src) >= 3
    /\ src[1] = 47 /\ src[2] = 47
    /\ (91 \in Range(src)) # (93 \in Range(src))

\* urljoin(base, src) for a base ending in "/" and a relative path.
urljoin(base, src) == base \o src

\* Lines 84-90: the reference and kind a tag stands for, src <<>> when none.
AssetTarget(tag) ==
    IF tag.name = "script" /\ tag.src # <<>>
    THEN [src |-> tag.src, ftype |-> "js"]
    ELSE IF tag.name = "link" /\ tag.rel # {} /\ "stylesheet" \in tag.rel
            /\ tag.href # <<>>
    THEN [src |-> tag.href, ftype |-> "css"]
    ELSE [src |-> <<>>, ftype |-> ""]

RECURSIVE StaticLoop(_, _, _, _)
\* Lines 83-100: the loop over the script and link tags. st is the state of
\* the call: the exception raised, the list arts, the files on disk.
StaticLoop(base, tags, dir, st) ==
    IF tags = <<>> THEN st
    ELSE
    LET tag == Head(tags)
        tgt == AssetTarget(tag)
    IN
    IF tgt.src = <<>> THEN StaticLoop(base, Tail(tags), dir, st)
    ELSE IF UrlJoinRaises(tgt.src) THEN [st EXCEPT !.exc = "ValueError"]
    ELSE
    LET full == _requote(urljoin(base, tgt.src))
        fp == Path(dir, "", full, tgt.ftype)
    IN
    IF tag.get # "ok"
    THEN StaticLoop(base, Tail(tags), dir, st)       \* except: st.warning
    ELSE IF tgt.ftype \in {"js", "css", "html"}
    THEN StaticLoop(base, Tail(tags), dir,
            [st EXCEPT !.fs = _safe_write(st.fs, fp, tag.body),
                       !.arts = Append(st.arts,
                                   FileArtifact(fp, tgt.ftype, full, tag.body))])
    ELSE StaticLoop(base, Tail(tags), dir,
            [st EXCEPT !.fs = WriteFile(st.fs, fp, Encode(tag.body)),
                       !.arts = Append(st.arts,
                                   FileArtifact(fp, tgt.ftype, full, Encode(tag.body)))])

\* fetch_static(base, sess, tmp) on the doc the server holds.
fetch_static(base, doc, dir, files) ==
    IF doc.root = "unreachable"
    THEN [exc |-> "ConnectionError", arts |-> <<>>, fs |-> files]
    ELSE IF doc.root = "http_error"
    THEN [exc |-> "HTTPError", arts |-> <<>>, fs |-> files]
    ELSE
    LET idx == Path(dir, "", IndexStem, "html") IN
    StaticLoop(base, doc.tags, dir,
        [exc |-> "",
         arts |-> <<FileArtifact(idx, "html", base, doc.html)>>,
         fs |-> _safe_write(files, idx, doc.html)])

-----------------------------------------------------------------------------
(* capture_api                                                             *)

\* Line 113: one of the three media types occurs in the Content-Type value
\* (a header value is a sequence of tokens).
TextApiTypes == {"application/json", "text/plain", "application/xml"}

\* A filter that compares the whole header value with the media type.
IsTextApiExact(ct) == \E x \in TextApiTypes : ct = <<x>>

IsTextApi(ct) == \E x \in TextApiTypes : x \in Range(ct)

\* Lines 115-116: the decoded body, the sentinel when decode raises.
BodyText(body) ==
    IF body.form = "none" THEN Text("<binary payload>") ELSE Decode(body)

\* Line 118: the text written for the request.
RequestText(rq) == Text(rq.line)

RECURSIVE CaptureLoop(_, _, _, _)
\* Lines 110-122: the loop over drv.requests. disk = "oserror": writing a
\* file raises OSError.
CaptureLoop(reqs, dir, disk, st) ==
    IF reqs = <<>> THEN st
    ELSE
    LET rq == Head(reqs) IN
    IF ~rq.resp THEN CaptureLoop(Tail(reqs), dir, disk, st)
    ELSE IF ~IsTextApi(rq.ct) THEN CaptureLoop(Tail(reqs), dir, disk, st)
    ELSE IF disk = "oserror" THEN [st EXCEPT !.exc = "OSError"]
    ELSE
    LET body == BodyText(rq.body)
        req_p == Path(dir, "api_req_", rq.url, "txt")
        res_p == Path(dir, "api_res_", rq.url, "txt")
        fs1 == _safe_write(st.fs, req_p, RequestText(rq))
        fs2 == _safe_write(fs1, res_p, body)
    IN
    CaptureLoop(Tail(reqs), dir, disk,
        [st EXCEPT !.fs = fs2,
                   !.arts = st.arts \o
                       <<FileArtifact(req_p, "api_request", rq.url, Decode(fs1[req_p])),
                         FileArtifact(res_p, "api_response", rq.url, body)>>])

-----------------------------------------------------------------------------
(* What the network, the browser and the user may supply                   *)

SeqsUpTo(S, n) == UNION {[1..k -> S] : k \in 0..n}

ScriptTag(src, get, body) ==
    [name |-> "script", src |-> src, rel |-> {}, href |-> <<>>,
     get |-> get, body |-> Text(body)]

LinkTag(rel, href, get, body) ==
    [name |-> "link", src |-> <<>>, rel |-> rel, href |-> href,
     get |-> get, body |-> Text(body)]

\* <script src="a">, twice with different bodies served, <script src="%61">
\* (the same URL once normalized), an inline script, a reference urljoin
\* rejects ("//["), <link rel=stylesheet href="s">, a link that is no
\* stylesheet, a stylesheet link without href; fetches that fail.
Tags ==
    { ScriptTag(<<97>>, "ok", "js1"),
      ScriptTag(<<97>>, "ok", "js2"),
      ScriptTag(<<37, 54, 49>>, "ok", "js1"),
      ScriptTag(<<97>>, "http_error", ""),
      ScriptTag(<<97>>, "write_error", "js1"),
      ScriptTag(<<>>, "", ""),
      ScriptTag(<<47, 47, 91>>, "ok", "js1"),
      LinkTag({"stylesheet"}, <<115>>, "ok", "css1"),
      LinkTag({"stylesheet"}, <<115>>, "timeout", ""),
      LinkTag({"icon"}, <<115>>, "ok", "ico"),
      LinkTag({"stylesheet"}, <<>>, "", "") }

\* One tag per outcome of an iteration of the loop of fetch_static: an
\* artifact (two bodies for one URL, and a stylesheet), a fetch that fails
\* and is skipped, a reference urljoin rejects.  The session draws its
\* documents from these; SpecStatic runs the loop over all of Tags.
SessionTags ==
    { ScriptTag(<<97>>, "ok", "js1"),
      ScriptTag(<<97>>, "ok", "js2"),
      ScriptTag(<<97>>, "http_error", ""),
      ScriptTag(<<47, 47, 91>>, "ok", "js1"),
      LinkTag({"stylesheet"}, <<115>>, "ok", "css1") }

\* The documents with at most n tags of T, and the two ways the root fetch
\* fails.
PagesUpTo(T, n) ==
    [root : {"ok"}, html : {Text("html")}, tags : SeqsUpTo(T, n)]
    \cup [root : {"http_error", "unreachable"}, html : {Text("")}, tags : {<<>>}]

Pages == PagesUpTo(Tags, MaxRefs)

NoPage == [root |-> "", html |-> Text(""), tags |-> <<>>]

Exchange(u, resp, ct, body) ==
    [url |-> BaseUrl \o u, line |-> "GET", resp |-> resp, ct |-> ct, body |-> body]

\* Exchanges for /x and /y: JSON, JSON with a charset parameter, text/plain
\* with bytes that are no UTF-8, XML whose body has no decode(), an image, an
\* HTML page, a response without Content-Type, a request that got no
\* response.
Exchanges ==
    { Exchange(<<120>>, TRUE, <<"application/json">>, Utf8Of("json1")),
      Exchange(<<120>>, TRUE, <<"application/json", "; charset=utf-8">>, Utf8Of("json1")),
      Exchange(<<121>>, TRUE, <<"text/plain">>, RawBytes("latin1")),
      Exchange(<<120>>, TRUE, <<"application/xml">>, NoBytes),
      Exchange(<<121>>, TRUE, <<"image/png">>, RawBytes("png")),
      Exchange(<<121>>, TRUE, <<"text/html">>, Utf8Of("html")),
      Exchange(<<120>>, TRUE, <<>>, Utf8Of("json1")),
      Exchange(<<120>>, FALSE, <<>>, NoBytes) }

\* One exchange per outcome of an iteration of the loop of capture_api: a
\* pair with decoded text, a pair with lossy text, a pair with the sentinel
\* text, no pair.  The session draws what the browser saw from these;
\* SpecCapture runs the loop over all of Exchanges.
SessionExchanges ==
    { Exchange(<<120>>, TRUE, <<"application/json">>, Utf8Of("json1")),
      Exchange(<<121>>, TRUE, <<"text/plain">>, RawBytes("latin1")),
      Exchange(<<120>>, TRUE, <<"application/xml">>, NoBytes),
      Exchange(<<121>>, TRUE, <<"image/png">>, RawBytes("png")) }

UploadedFile(stem, suffix, data) == [stem |-> stem, suffix |-> suffix, data |-> data]

\* a.js, n.txt, i.png
Uploads ==
    { UploadedFile(<<97>>, ".js", Utf8Of("js1")),
      UploadedFile(<<110>>, ".txt", Utf8Of("notes")),
      UploadedFile(<<105>>, ".png", RawBytes("png")) }

\* What ollama.generate does: it returns a response or raises.
Replies ==
    { [raises |-> FALSE, text |-> "finding"],
      [raises |-> TRUE, text |-> "refused"] }

-----------------------------------------------------------------------------
(* short_summary, deep_dive                                                *)

\* f"[LLM error: {e}]"
LlmError(e) ==
    IF e = "refused" THEN "[LLM error: refused]" ELSE "[LLM error: ]"

\* A summary without the except clause's return: the error yields no text.
short_summary_no_sentinel(text, role, reply) ==
    IF reply.raises THEN None ELSE reply.text

\* Lines 133-137.
short_summary(text, role, reply) ==
    IF reply.raises THEN LlmError(reply.text) ELSE reply.text

\* Lines 153-157.
deep_dive(text, ftype, reply) ==
    IF reply.raises THEN LlmError(reply.text) ELSE reply.text

-----------------------------------------------------------------------------
(* main(): uploads                                                         *)

\* mimetypes.guess_type(name)[0] or ""
GuessType(suffix) ==
    CASE suffix = ".js" -> "text/javascript"
      [] suffix = ".css" -> "text/css"
      [] suffix \in {".html", ".htm"} -> "text/html"
      [] suffix = ".txt" -> "text/plain"
      [] suffix = ".json" -> "application/json"
      [] suffix = ".png" -> "image/png"
      [] OTHER -> ""

\* word in mime, for the media types guess_type returns here.
MimeHas(mime, word) ==
    CASE word = "javascript" -> mime \in {"text/javascript", "application/javascript"}
      [] word = "css" -> mime = "text/css"
      [] word = "html" -> mime \in {"text/html", "application/xhtml+xml"}
      [] OTHER -> FALSE

\* Lines 183-186 (suffix is p.suffix.lower()).
UploadType(mime, suffix) ==
    IF MimeHas(mime, "javascript") \/ suffix = ".js" THEN "js"
    ELSE IF MimeHas(mime, "css") \/ suffix = ".css" THEN "css"
    ELSE IF MimeHas(mime, "html") \/ suffix \in {".html", ".htm"} THEN "html"
    ELSE "other"

RECURSIVE UploadLoop(_, _, _)
\* Lines 180-188: st holds the session's list and the files on disk.
UploadLoop(ups, up_dir, st) ==
    IF ups = <<>> THEN st
    ELSE
    LET uf == Head(ups)
        p == Path(up_dir, "", uf.stem, uf.suffix)
        fs1 == WriteFile(st.fs, p, uf.data)
        mime == GuessType(uf.suffix)
        t == UploadType(mime, uf.suffix)
        c == IF t # "other" THEN Decode(fs1[p]) ELSE fs1[p]
    IN
    UploadLoop(Tail(ups), up_dir,
        [fs |-> fs1,
         arts |-> Append(st.arts,
                     [FileArtifact(p, t, NoUrl, c) EXCEPT !.declared = mime])])

-----------------------------------------------------------------------------
(* main(): one script run after the other                                  *)

CallState(files) == [exc |-> "", arts |-> <<>>, fs |-> files]

Min(a, b) == IF a < b THEN a ELSE b

\* tempfile.mkdtemp: a new directory, one that holds no file. Directories
\* are numbered; the new one is the first after those that hold files.
mkdtemp(files) ==
    LET used == {p.dir : p \in DOMAIN files}
    IN IF used = {} THEN 1 ELSE 1 + CHOOSE d \in used : \A e \in used : e <= d

\* Lines 163-195: a script run starts. The uploader's files become artifacts
\* (lines 178-189); with the crawl button pressed the crawl gets its directory
\* (lines 192-195), otherwise the run goes on to the summaries.
HandleUploads ==
    /\ pc = "idle"
    /\ runs < MaxRuns
    /\ \E ups \in SeqsUpTo(Uploads, Min(MaxUploads, MaxArts - Len(arts))),
          crawl_btn \in BOOLEAN :
        LET st == UploadLoop(ups, mkdtemp(fs), [fs |-> fs, arts |-> arts])
        IN /\ arts' = st.arts
           /\ fs' = st.fs
           /\ IF crawl_btn
              THEN tmp' = mkdtemp(st.fs) /\ pc' = "fetch"
              ELSE tmp' = tmp /\ pc' = "summaries"
    /\ runs' = runs + 1
    /\ UNCHANGED <<live, ret, exc, shown, before, failed, page, seen>>
    /\ UNCHANGED nvars

\* Line 197, the call: fetch_static runs on the document doc.
CallFetchStatic(doc) ==
    /\ pc = "fetch"
    /\ before' = arts
    /\ LET r == fetch_static(BaseUrl, doc, tmp, fs) IN
        /\ fs' = r.fs
        /\ ret' = r.arts
        /\ exc' = r.exc
        /\ failed' = IF r.exc # "" THEN "static" ELSE failed
        /\ pc' = IF r.exc # "" THEN "except" ELSE "static_ret"
    /\ UNCHANGED <<arts, runs, live, shown, tmp, page, seen>>
    /\ UNCHANGED nvars

FetchStatic ==
    \E doc \in PagesUpTo(SessionTags, Min(MaxRefs, MaxArts - Len(arts) - 1)) :
        CallFetchStatic(doc)

\* Line 197, the extend with the list fetch_static returned.
ExtendStatic ==
    /\ pc = "static_ret"
    /\ arts' = arts \o ret
    /\ ret' = <<>>
    /\ pc' = "capture"
    /\ UNCHANGED <<fs, runs, live, exc, shown, before, failed, tmp, page, seen>>
    /\ UNCHANGED nvars

\* Line 198, the call, and line 106: webdriver.Chrome(options=opts).
CapAcquire ==
    /\ pc = "capture"
    /\ before' = arts
    /\ \E ok \in BOOLEAN :
        IF ok
        THEN /\ live' = live + 1
             /\ pc' = "cap_config"
             /\ UNCHANGED <<exc, failed>>
        ELSE /\ exc' = "WebDriverException"
             /\ failed' = "capture"
             /\ pc' = "except"
             /\ UNCHANGED live
    /\ UNCHANGED <<arts, fs, runs, ret, shown, tmp, page, seen>>
    /\ UNCHANGED nvars

\* Line 106: drv.scopes = [...]; drv.set_page_load_timeout(40), before the
\* try statement is entered.
CapConfig ==
    /\ pc = "cap_config"
    /\ \E ok \in BOOLEAN :
        IF ok
        THEN /\ pc' = "cap_try"
             /\ UNCHANGED <<exc, failed>>
        ELSE /\ exc' = "WebDriverException"
             /\ failed' = "capture"
             /\ pc' = "except"
    /\ UNCHANGED <<arts, fs, runs, live, ret, shown, before, tmp, page, seen>>
    /\ UNCHANGED nvars

\* Lines 108-122, the body of the try statement: the navigation and the loop
\* over the exchanges reqs the browser recorded.
CallCapTry(reqs) ==
    /\ pc = "cap_try"
    /\ \E nav \in {"ok", "timeout"}, disk \in {"ok", "oserror"} :
        IF nav = "timeout"
        THEN /\ exc' = "TimeoutException"
             /\ UNCHANGED <<fs, ret>>
        ELSE LET r == CaptureLoop(reqs, tmp, disk, CallState(fs)) IN
             /\ fs' = r.fs
             /\ ret' = r.arts
             /\ exc' = r.exc
    /\ pc' = "cap_finally"
    /\ UNCHANGED <<arts, runs, live, shown, before, failed, tmp, page, seen>>
    /\ UNCHANGED nvars

CapTry ==
    \E reqs \in SeqsUpTo(SessionExchanges,
                          Min(MaxExchanges, (MaxArts - Len(arts)) \div 2)) :
        CallCapTry(reqs)

\* Lines 123-125: finally: drv.quit(), then the return or the re-raise.
CapFinally ==
    /\ pc = "cap_finally"
    /\ live' = live - 1
    /\ failed' = IF exc # "" THEN "capture" ELSE failed
    /\ pc' = IF exc # "" THEN "except" ELSE "cap_ret"
    /\ UNCHANGED <<arts, fs, runs, ret, exc, shown, before, tmp, page, seen>>
    /\ UNCHANGED nvars

\* Line 198, the extend with the list capture_api returned.
ExtendCapture ==
    /\ pc = "cap_ret"
    /\ arts' = arts \o ret
    /\ ret' = <<>>
    /\ pc' = "summaries"
    /\ UNCHANGED <<fs, runs, live, exc, shown, before, failed, tmp, page, seen>>
    /\ UNCHANGED nvars

\* A handler that keeps what the failed call had collected so far.
OnCrawlErrorKeepPartial(list, partial) == list \o partial

\* Lines 199-200: the session's list after a crawl call raised; partial is
\* the list the call had built.
OnCrawlError(list, partial) == list

\* Lines 199-200: except Exception as e: st.error(...).
CrawlExcept ==
    /\ pc = "except"
    /\ shown' = exc
    /\ exc' = ""
    /\ arts' = OnCrawlError(arts, ret)
    /\ ret' = <<>>
    /\ pc' = "summaries"
    /\ UNCHANGED <<fs, runs, live, before, failed, tmp, page, seen>>
    /\ UNCHANGED nvars

\* A pass that does not look at the summary already there.
NeedsSummaryAlways(a) == IsStr(a.content)

\* Line 204.
NeedsSummary(a) == a.summary = None /\ IsStr(a.content)

\* Line 205.
Summarized(a, reply) ==
    [a EXCEPT !.summary = short_summary(a.content, a.type, reply),
              !.nsum = @ + 1,
              !.sumErr = reply.raises]

RECURSIVE SummaryPassFrom(_, _, _)
SummaryPassFrom(list, reply, i) ==
    IF i > Len(list) THEN <<>>
    ELSE <<IF NeedsSummary(list[i]) THEN Summarized(list[i], reply[i]) ELSE list[i]>>
         \o SummaryPassFrom(list, reply, i + 1)

\* Lines 203-205: the summary pass over the whole list.
SummaryPass(list, reply) == SummaryPassFrom(list, reply, 1)

\* Line 221.
NeedsDetails(a) == a.details = None

\* Line 223.
Detailed(a, reply) ==
    [a EXCEPT !.details = deep_dive(a.content, a.type, reply),
              !.ndet = @ + 1,
              !.detErr = reply.raises]

\* Lines 219-223: the deep-dive button of artifact clicked is pressed (0: none).
DeepDive(list, clicked, reply) ==
    IF clicked # 0 /\ NeedsDetails(list[clicked])
    THEN [list EXCEPT ![clicked] = Detailed(@, reply)]
    ELSE list

\* Lines 203-225: the summary pass and the report; the script run ends. At
\* most one button is pressed in a script run: a deep-dive button can be
\* pressed only in a run whose crawl button was not.
SummariesAndReport ==
    /\ pc = "summaries"
    /\ \E reply \in [{i \in 1..Len(arts) : NeedsSummary(arts[i])} -> Replies],
          clicked \in 0..Len(arts), answer \in Replies :
        /\ clicked # 0 => (tmp = 0 /\ IsStr(arts[clicked].content))
        /\ (clicked = 0 \/ ~NeedsDetails(arts[clicked])) => ~answer.raises
        /\ arts' = DeepDive(SummaryPass(arts, reply), clicked, answer)
    /\ shown' = ""
    /\ failed' = ""
    /\ before' = <<>>
    /\ tmp' = 0
    /\ pc' = "idle"
    /\ UNCHANGED <<fs, runs, live, ret, exc, page, seen>>
    /\ UNCHANGED nvars

InitSession ==
    /\ arts = <<>>
    /\ fs = <<>>
    /\ runs = 0
    /\ live = 0
    /\ ret = <<>>
    /\ exc = ""
    /\ shown = ""
    /\ before = <<>>
    /\ failed = ""

InitNormIdle ==
    /\ nurl = <<>>
    /\ nprev = <<>>
    /\ nsteps = 0

Init ==
    /\ InitSession
    /\ InitNormIdle
    /\ pc = "idle"
    /\ tmp = 0
    /\ page = NoPage
    /\ seen = <<>>

Next ==
    \/ HandleUploads
    \/ FetchStatic
    \/ ExtendStatic
    \/ CapAcquire
    \/ CapConfig
    \/ CapTry
    \/ CapFinally
    \/ ExtendCapture
    \/ CrawlExcept
    \/ SummariesAndReport

Spec == Init /\ [][Next]_vars

-----------------------------------------------------------------------------
(* fetch_static alone, on every bounded document                           *)

InitStatic ==
    /\ InitSession
    /\ InitNormIdle
    /\ pc = "fetch"
    /\ tmp = 1
    /\ page \in Pages
    /\ seen = <<>>

FetchStaticPage == CallFetchStatic(page)

NextStatic ==
    \/ FetchStaticPage
    \/ ExtendStatic
    \/ CrawlExcept

SpecStatic == InitStatic /\ [][NextStatic]_vars

-----------------------------------------------------------------------------
(* capture_api alone, on every bounded sequence of exchanges               *)

InitCapture ==
    /\ InitSession
    /\ InitNormIdle
    /\ pc = "capture"
    /\ tmp = 1
    /\ page = NoPage
    /\ seen \in SeqsUpTo(Exchanges, MaxExchanges)

CapTrySeen == CallCapTry(seen)

NextCapture ==
    \/ CapAcquire
    \/ CapConfig
    \/ CapTrySeen
    \/ CapFinally
    \/ ExtendCapture
    \/ CrawlExcept

SpecCapture == InitCapture /\ [][NextCapture]_vars

-----------------------------------------------------------------------------
(* The normalizer applied twice to every bounded input                     *)

InitNorm ==
    /\ nurl \in UrlStrings
    /\ nprev = nurl
    /\ nsteps = 0
    /\ InitSession
    /\ pc = "idle"
    /\ tmp = 0
    /\ page = NoPage
    /\ seen = <<>>

Normalize ==
    /\ nsteps < 2
    /\ nprev' = nurl
    /\ nurl' = _requote(nurl)
    /\ nsteps' = nsteps + 1
    /\ UNCHANGED svars

NextNorm == Normalize

SpecNorm == InitNorm /\ [][NextNorm]_vars

-----------------------------------------------------------------------------
(* Properties                                                              *)

\* C1: no two artifacts of the session's list have the same location.
UniqueLocations ==
    \A i, j \in 1..Len(arts) : i # j => arts[i].path # arts[j].path

\* C2: once capture_api holds a browser session, the session is released
\* before control is back in the caller, on every exit path.
InsideCapture == pc \in {"cap_config", "cap_try", "cap_finally"}

SessionReleasedOnReturn == ~InsideCapture => live = 0

\* The references of a document whose fetch succeeded, in document order, as
\* the kind and the absolute URL the artifact of each must carry.
IsReference(tag) ==
    \/ tag.name = "script" /\ tag.src # <<>>
    \/ tag.name = "link" /\ "stylesheet" \in tag.rel /\ tag.href # <<>>

RECURSIVE FetchedReferences(_)
FetchedReferences(tags) ==
    IF tags = <<>> THEN <<>>
    ELSE (IF IsReference(Head(tags)) /\ Head(tags).get = "ok"
          THEN << [type |-> IF Head(tags).name = "script" THEN "js" ELSE "css",
                   url |-> _requote(BaseUrl \o (IF Head(tags).name = "script"
                                                THEN Head(tags).src
                                                ELSE Head(tags).href))] >>
          ELSE <<>>) \o FetchedReferences(Tail(tags))

KindAndOrigin(list) ==
    [i \in 1..Len(list) |-> [type |-> list[i].type, url |-> list[i].url]]

\* C3: when the root document was fetched, fetch_static does not raise,
\* whatever happens to a referenced asset, and returns the root html artifact
\* followed by one js / css artifact per reference fetched, in document order.
StaticCrawlToleratesAssets ==
    (page.root = "ok" /\ pc \in {"static_ret", "except"}) =>
        /\ pc = "static_ret"
        /\ KindAndOrigin(ret) =
             <<[type |-> "html", url |-> BaseUrl]>> \o FetchedReferences(page.tags)

\* C4: when a crawl call raises, the error is shown and the session's list is
\* the list of the moment the call started.
FailedCrawlLeavesCollection ==
    (failed # "" /\ pc \in {"except", "summaries"}) =>
        /\ arts = before
        /\ pc = "summaries" => shown # ""

FailedCrawlWitness ==
    /\ pc = "summaries"
    /\ failed = "capture"
    /\ shown = "TimeoutException"
    /\ Len(arts) >= 2

\* The exchanges the filter must keep: a response is present and its
\* Content-Type holds one of the three text media types.
Kept(reqs) ==
    SelectSeq(reqs, LAMBDA rq :
        rq.resp /\ (Range(rq.ct) \cap {"application/json", "text/plain",
                                        "application/xml"} # {}))

\* C5: capture_api returns, in the order observed, one api_request followed
\* by one api_response of the same origin for every exchange with a text API
\* response, and nothing for any other exchange; an exchange whose body has
\* no decoding still gives its pair.
CapturePairsAccepted ==
    pc = "cap_ret" =>
        /\ Len(ret) = 2 * Len(Kept(seen))
        /\ \A k \in 1..Len(Kept(seen)) :
            /\ ret[2 * k - 1].type = "api_request"
            /\ ret[2 * k].type = "api_response"
            /\ ret[2 * k - 1].url = Kept(seen)[k].url
            /\ ret[2 * k].url = Kept(seen)[k].url
            /\ IsStr(ret[2 * k].content)

CapturePairsWitness ==
    /\ pc = "cap_ret"
    /\ Len(seen) = 2
    /\ Len(ret) = 2
    /\ ~seen[1].resp
    /\ ret[2].content = Text("<binary payload>")

\* C6: when the collaborator raises during a summary or a deep dive, the call
\* returns a non-empty sentinel text and the artifact's field holds it.
CollaboratorErrorStored ==
    \A i \in 1..Len(arts) :
        /\ arts[i].sumErr =>
            arts[i].summary # None /\ arts[i].summary # ""
            /\ arts[i].summary = "[LLM error: refused]"
        /\ arts[i].detErr =>
            arts[i].details # None /\ arts[i].details # ""
            /\ arts[i].details = "[LLM error: refused]"

CollaboratorErrorWitness ==
    \E i \in 1..Len(arts) : arts[i].sumErr /\ arts[i].detErr

\* C7: a summary or details once set is never changed, and the collaborator
\* is not invoked again for it, by any later step of the session.
SetAtMostOnce ==
    [][\A i \in 1..Len(arts) :
          /\ arts[i].summary # None =>
                arts'[i].summary = arts[i].summary /\ arts'[i].nsum = arts[i].nsum
          /\ arts[i].details # None =>
                arts'[i].details = arts[i].details /\ arts'[i].ndet = arts[i].ndet]_vars

\* A later script run has added an artifact, and its summary pass is about
\* to run over a first artifact whose two fields were set in earlier runs.
SetAtMostOnceWitness ==
    /\ pc = "summaries"
    /\ Len(arts) >= 2
    /\ arts[1].nsum = 1 /\ arts[1].ndet = 1
    /\ arts[Len(arts)].path.dir > arts[1].path.dir
    /\ NeedsSummary(arts[Len(arts)])

\* A media type that declares text.
DeclaresText(mime) ==
    mime \in {"text/plain", "text/html", "text/css", "text/javascript"}

\* C8: the payload of an artifact is text exactly when its kind is html, js,
\* css, api_request or api_response, or its kind is other and its source
\* declared a text media type.
PayloadTextIffTextKind ==
    \A i \in 1..Len(arts) :
        IsStr(arts[i].content) <=>
            \/ arts[i].type \in {"html", "js", "css", "api_request", "api_response"}
            \/ arts[i].type = "other" /\ DeclaresText(arts[i].declared)

\* C9: normalize is idempotent: a second _requote leaves the result of the
\* first unchanged, for every input (non-ASCII characters, percent-encoded
\* sequences and stray '%' included).
NormalizeIdempotent == (nsteps = 2) => (nurl = nprev)

\* The file at the location of a holds what was written for a's payload.
FileHoldsPayload(a) ==
    /\ a.path \in DOMAIN fs
    /\ IF a.url = NoUrl
       THEN Decode(fs[a.path]) = a.content
       ELSE fs[a.path] = Encode(a.content)

\* C10: the file of a text artifact held by a crawl's result or by the
\* session's list is never overwritten by a later step.
StoredBytesKept ==
    /\ \A i \in 1..Len(arts) : IsStr(arts[i].content) => FileHoldsPayload(arts[i])
    /\ \A i \in 1..Len(ret) : IsStr(ret[i].content) => FileHoldsPayload(ret[i])

====
